---- MODULE Spec2Model ----
(***************************************************************************)
(* Model of the AMCache Registry parser, plaso/parsers/amcache.py.         *)
(*                                                                         *)
(* Text is a sequence of one-character strings, so that splitting,         *)
(* prefix tests, joining and lexical ordering are computed and not         *)
(* assumed.  A Registry key is a record [name, values, sub_keys]; a value  *)
(* is a record [name, type, data, fault] where fault says that the hive    *)
(* reader raises IOError or OverflowError when the value data is decoded.  *)
(***************************************************************************)
EXTENDS Integers, Sequences, FiniteSets, TLC

VARIABLES
  hive,               \* the file object: [opens, root]; read-only input
  pc,                 \* position of the parser in ParseFileObject and below
  key_path_segments,  \* the list _ParseRootKey hands down to _ParseSubKey
  cursor,             \* sub key indexes, from Root, of the key being handled
  events,             \* what ProduceEventWithEventData received, in order
  warnings,           \* what ProduceExtractionWarning received, in order
  event_data,         \* event data object of the last entry decoder call
  calls               \* entry decoder calls made so far: <<function, key>>

vars == <<hive, pc, key_path_segments, cursor, events, warnings,
          event_data, calls>>

\* A Python reference that may be None: None, or Some(object)
None == <<>>
Some(object) == <<object>>

----------------------------------------------------------------------------
(* Text.                                                                   *)

\* Characters in code point order, as Python compares str values.
CodePoints ==
  <<" ", "(", ")", ",", "-", "0", "1", "2", "3", "4", "5", "6", "7", "8",
    "9", ":", "F", "N", "O", "P", "R", "V", "[", "\\", "]", "a", "b", "c",
    "d", "e", "f", "g", "h", "i", "l", "m", "n", "o", "p", "r", "s", "t",
    "u", "v", "y", "z">>

Ord(c) == CHOOSE i \in 1..Len(CodePoints) : CodePoints[i] = c

\* str.__lt__
RECURSIVE TextLess(_, _)
TextLess(a, b) ==
  IF b = <<>> THEN FALSE
  ELSE IF a = <<>> THEN TRUE
  ELSE IF a[1] = b[1] THEN TextLess(Tail(a), Tail(b))
  ELSE Ord(a[1]) < Ord(b[1])

\* str.startswith
StartsWith(text, prefix) ==
  /\ Len(text) >= Len(prefix)
  /\ SubSeq(text, 1, Len(prefix)) = prefix

\* the "in" operator of str
Contains(text, sub) ==
  \E i \in 1..(Len(text) - Len(sub) + 1) :
    SubSeq(text, i, i + Len(sub) - 1) = sub

\* str.split(sep): the pieces between the non-overlapping occurrences of
\* sep found scanning from the left.
RECURSIVE SplitFrom(_, _, _)
SplitFrom(text, sep, piece) ==
  IF text = <<>> THEN <<piece>>
  ELSE IF StartsWith(text, sep)
    THEN <<piece>> \o SplitFrom(SubSeq(text, Len(sep) + 1, Len(text)), sep, <<>>)
    ELSE SplitFrom(Tail(text), sep, Append(piece, text[1]))

Split(text, sep) == SplitFrom(text, sep, <<>>)

\* str.join
RECURSIVE Join(_, _)
Join(sep, texts) ==
  IF texts = <<>> THEN <<>>
  ELSE IF Len(texts) = 1 THEN texts[1]
  ELSE texts[1] \o sep \o Join(sep, Tail(texts))

HexDigits ==
  <<"0", "1", "2", "3", "4", "5", "6", "7", "8", "9",
    "a", "b", "c", "d", "e", "f">>

IsHexDigit(c) == \E i \in 1..16 : HexDigits[i] = c

HexValue(c) == (CHOOSE i \in 1..16 : HexDigits[i] = c) - 1

\* Whether int(text, 16) returns; otherwise it raises ValueError.  The names
\* of the model use lower case digits only, without sign, prefix or blanks.
IsHex(text) == text # <<>> /\ \A i \in 1..Len(text) : IsHexDigit(text[i])

\* int(text, 16)
RECURSIVE HexToInt(_, _)
HexToInt(text, acc) ==
  IF text = <<>> THEN acc
  ELSE HexToInt(Tail(text), 16 * acc + HexValue(text[1]))

\* '{0:d}'.format(n), n >= 0
RECURSIVE Decimal(_)
Decimal(n) ==
  IF n < 10 THEN <<HexDigits[n + 1]>>
  ELSE Append(Decimal(n \div 10), HexDigits[(n % 10) + 1])

\* str.lower, for the letters of CodePoints
LowerChar(c) ==
  CASE c = "F" -> "f" [] c = "N" -> "n" [] c = "O" -> "o" [] c = "P" -> "p"
    [] c = "R" -> "r" [] c = "V" -> "v" [] OTHER -> c

Lower(text) == [i \in 1..Len(text) |-> LowerChar(text[i])]

----------------------------------------------------------------------------
(* Registry values: dfwinreg type tags and the pyregf accessors.           *)

REG_SZ == "REG_SZ"
REG_EXPAND_SZ == "REG_EXPAND_SZ"
REG_LINK == "REG_LINK"
REG_DWORD == "REG_DWORD"
REG_DWORD_BIG_ENDIAN == "REG_DWORD_BIG_ENDIAN"
REG_QWORD == "REG_QWORD"
REG_MULTI_SZ == "REG_MULTI_SZ"
REG_BINARY == "REG_BINARY"

StringTypes == {REG_SZ, REG_EXPAND_SZ, REG_LINK}
IntegerTypes == {REG_DWORD, REG_DWORD_BIG_ENDIAN, REG_QWORD}

\* pyregf: value.get_data_as_integer() raises IOError when the data cannot
\* be read as an integer.
IntegerRaises(regf_value) ==
  regf_value.fault \/ regf_value.type \notin IntegerTypes

\* key.get_value_by_name(name): the value, or None
GetValueByName(regf_key, name) ==
  IF \E i \in 1..Len(regf_key.values) : regf_key.values[i].name = name
  THEN Some(regf_key.values[
              CHOOSE i \in 1..Len(regf_key.values) :
                /\ regf_key.values[i].name = name
                /\ \A j \in 1..(i - 1) : regf_key.values[j].name # name])
  ELSE None

UnableToRead(regf_value) ==
  [message |-> "Unable to read data from value", name |-> regf_value.name]

\* _GetValueDataAsObject: [data, warnings]; every branch of the try block
\* calls one accessor of the value, and IOError and OverflowError are caught.
GetValueDataAsObject(regf_value) ==
  IF regf_value.fault
  THEN [data |-> None, warnings |-> <<UnableToRead(regf_value)>>]
  ELSE [data |-> regf_value.data, warnings |-> <<>>]

\* Whether the object _GetValueDataAsObject returns is a str.
DecodesToStr(regf_value) ==
  ~regf_value.fault /\ regf_value.type \in StringTypes

\* '{0!s}'.format(value_object) for a str, an int or None
Str(regf_value, value_object) ==
  IF value_object = None THEN <<"N", "o", "n", "e">>
  ELSE IF regf_value.type \in IntegerTypes THEN Decimal(value_object[1])
  ELSE value_object[1]

\* values_dict[value_name] = value_string, the dict as its items in
\* insertion order
DictSet(items, name, string) ==
  IF \E i \in 1..Len(items) : items[i][1] = name
  THEN [i \in 1..Len(items) |->
          IF items[i][1] = name THEN <<name, string>> ELSE items[i]]
  ELSE Append(items, <<name, string>>)

\* One pass of the loop of _GetValuesFromKey over regf_value, from the
\* state acc = [values_dict, warnings, raised].
GetValuesStep(acc, regf_value, names_to_skip) ==
  LET value_name ==
        IF regf_value.name = <<>>
        THEN <<"(", "d", "e", "f", "a", "u", "l", "t", ")">>
        ELSE regf_value.name
      binary == regf_value.type \notin
                  (StringTypes \cup IntegerTypes \cup {REG_MULTI_SZ})
      got == GetValueDataAsObject(regf_value)
      value_object == got.data
      value_string ==
        IF regf_value.type = REG_MULTI_SZ
        THEN <<"[">>
             \o Join(<<",", " ">>,
                     IF value_object = None THEN <<>> ELSE value_object[1])
             \o <<"]">>
        ELSE IF ~binary THEN Str(regf_value, value_object)
        ELSE <<"(">> \o Decimal(Len(value_object[1]))
             \o <<" ", "b", "y", "t", "e", "s", ")">>
  IN IF acc.raised \/ Lower(value_name) \in names_to_skip THEN acc
     \* regf_value.data is read first, outside of any try block
     ELSE IF binary /\ regf_value.fault THEN [acc EXCEPT !.raised = TRUE]
     ELSE IF regf_value.data = None
       THEN [acc EXCEPT !.values_dict =
               DictSet(@, value_name, <<"(", "e", "m", "p", "t", "y", ")">>)]
     ELSE [acc EXCEPT !.values_dict = DictSet(@, value_name, value_string),
                      !.warnings = @ \o got.warnings]

RECURSIVE GetValuesLoop(_, _, _)
GetValuesLoop(acc, values, names_to_skip) ==
  IF values = <<>> THEN acc
  ELSE GetValuesLoop(GetValuesStep(acc, values[1], names_to_skip),
                     Tail(values), names_to_skip)

\* _GetValuesFromKey: [values_dict, warnings, raised]
GetValuesFromKey(regf_key, names_to_skip) ==
  GetValuesLoop([values_dict |-> <<>>, warnings |-> <<>>, raised |-> FALSE],
                regf_key.values, {Lower(name) : name \in names_to_skip})

\* Order of the (name, value) tuples under sorted()
ItemLess(a, b) ==
  TextLess(a[1], b[1]) \/ (a[1] = b[1] /\ TextLess(a[2], b[2]))

RECURSIVE Insert(_, _)
Insert(sortedItems, item) ==
  IF sortedItems = <<>> THEN <<item>>
  ELSE IF ItemLess(item, sortedItems[1]) THEN <<item>> \o sortedItems
  ELSE <<sortedItems[1]>> \o Insert(Tail(sortedItems), item)

\* The items as the dict holds them, sorted() left out
Unsorted(items) == items

\* sorted(values_dict.items())
RECURSIVE Sorted(_)
Sorted(items) ==
  IF items = <<>> THEN <<>>
  ELSE Insert(Sorted(SubSeq(items, 1, Len(items) - 1)), items[Len(items)])

\* ' '.join(['{0:s}: {1!s}'.format(name, value) ...]) or None
ValuesText(items) ==
  LET text == Join(<<" ">>,
                   [i \in 1..Len(items) |->
                      items[i][1] \o <<":", " ">> \o items[i][2]])
  IN IF text = <<>> THEN None ELSE Some(text)

TIME_DESCRIPTION_CHANGE == "Metadata Modification Time"
TIME_DESCRIPTION_CREATION == "Creation Time"
TIME_DESCRIPTION_INSTALLATION == "Installation Time"
TIME_DESCRIPTION_MODIFICATION == "Content Modification Time"
TIME_DESCRIPTION_WRITTEN == "Last Written Time"

\* time_events.DateTimeValuesEvent with its event data, as the mediator
\* receives it; key is the place in the hive of the key it was made from.
Event(date_time, timestamp, description, data, key) ==
  [date_time |-> date_time, timestamp |-> timestamp,
   description |-> description, event_data |-> data, key |-> key]

\* _ProduceDefaultWindowsRegistryEvent: [raised, warnings, events]
ProduceDefaultWindowsRegistryEvent(regf_key, key_path, key) ==
  LET got == GetValuesFromKey(regf_key, {})
      data == [data_type |-> "windows:registry:key_value",
               key_path |-> key_path,
               values |-> ValuesText(Sorted(got.values_dict))]
  IN [raised |-> got.raised,
      warnings |-> got.warnings,
      events |-> IF got.raised THEN <<>>
                 ELSE <<Event("Filetime", regf_key.last_written_time,
                              TIME_DESCRIPTION_WRITTEN, data, key)>>]

----------------------------------------------------------------------------
(* The entry decoders.                                                     *)

\* AMCacheFileEventData.__init__
AMCacheFileEventData ==
  [data_type |-> "windows:registry:amcache",
   company_name |-> None, file_description |-> None, file_reference |-> None,
   file_size |-> None, file_version |-> None, full_path |-> None,
   language_code |-> None, product_name |-> None,
   program_identifier |-> None, sha1 |-> None]

\* AMCacheProgramEventData.__init__
AMCacheProgramEventData ==
  [data_type |-> "windows:registry:amcache:programs",
   entry_type |-> None, file_paths |-> None, files |-> None,
   language_code |-> None, msi_package_code |-> None,
   msi_product_code |-> None, name |-> None, package_code |-> None,
   product_code |-> None, publisher |-> None, uninstall_key |-> None,
   version |-> None]

\* {value name: attribute name}, in the order the dict is iterated
FILE_REFERENCE_KEY_VALUES ==
  << <<(<<"0">>), "product_name">>,
     <<(<<"1">>), "company_name">>,
     <<(<<"3">>), "language_code">>,
     <<(<<"5">>), "file_version">>,
     <<(<<"6">>), "file_size">>,
     <<(<<"c">>), "file_description">>,
     <<(<<"1", "5">>), "full_path">>,
     <<(<<"1", "0", "0">>), "program_identifier">>,
     <<(<<"1", "0", "1">>), "sha1">> >>

AMCACHE_COMPILATION_TIME == <<"f">>
AMCACHE_FILE_MODIFICATION_TIME == <<"1", "1">>
AMCACHE_FILE_CREATION_TIME == <<"1", "2">>
AMCACHE_ENTRY_WRITE_TIME == <<"1", "7">>

AMCACHE_P_INSTALLATION_TIME == <<"a">>

PRODUCT_KEY_VALUES ==
  << <<(<<"0">>), "name">>,
     <<(<<"1">>), "version">>,
     <<(<<"2">>), "publisher">>,
     <<(<<"3">>), "language_code">>,
     <<(<<"6">>), "entry_type">>,
     <<(<<"7">>), "uninstall_key">>,
     <<(<<"d">>), "file_paths">>,
     <<(<<"f">>), "product_code">>,
     <<(<<"1", "0">>), "package_code">>,
     <<(<<"1", "1">>), "msi_product_code">>,
     <<(<<"1", "2">>), "msi_package_code">> >>

Zeros == <<"0", "0", "0", "0">>

\* The try block of _ParseFileReferenceKey: the file reference, or None
\* after a ValueError, which unpacking other than two pieces raises as
\* int() does.
FileReference(name) ==
  IF Contains(name, Zeros)
  THEN LET pieces == Split(name, Zeros)
       IN IF Len(pieces) # 2 THEN None
          ELSE IF ~IsHex(pieces[2]) \/ ~IsHex(pieces[1]) THEN None
          ELSE Some(Decimal(HexToInt(pieces[2], 0)) \o <<"-">>
                    \o Decimal(HexToInt(pieces[1], 0)))
  ELSE IF ~IsHex(name) THEN None
  ELSE Some(Decimal(HexToInt(name, 0)))

\* The pass without the four characters stripped off the sha1
FileValueStepUnstripped(acc, regf_key, value_name, attribute_name) ==
  LET value == GetValueByName(regf_key, value_name)
      got == GetValueDataAsObject(value[1])
      warned == [acc EXCEPT !.warnings = @ \o got.warnings]
  IN IF acc.raised \/ value = None THEN acc
     ELSE IF attribute_name = "sha1" /\ ~DecodesToStr(value[1])
       THEN [warned EXCEPT !.raised = TRUE]
     ELSE [warned EXCEPT !.event_data[attribute_name] = got.data]

\* One pass of the first loop of _ParseFileReferenceKey, from the state
\* acc = [event_data, warnings, raised].  startswith is an attribute of str
\* only, and bytes.startswith takes no str.
FileValueStep(acc, regf_key, value_name, attribute_name) ==
  LET value == GetValueByName(regf_key, value_name)
      got == GetValueDataAsObject(value[1])
      warned == [acc EXCEPT !.warnings = @ \o got.warnings]
  IN IF acc.raised \/ value = None THEN acc
     ELSE IF attribute_name = "sha1" /\ ~DecodesToStr(value[1])
       THEN [warned EXCEPT !.raised = TRUE]
     ELSE IF attribute_name = "sha1" /\ StartsWith(got.data[1], Zeros)
       THEN [warned EXCEPT !.event_data[attribute_name] =
               Some(SubSeq(got.data[1], 5, Len(got.data[1])))]
     ELSE [warned EXCEPT !.event_data[attribute_name] = got.data]

RECURSIVE FileValuesLoop(_, _, _)
FileValuesLoop(acc, regf_key, table) ==
  IF table = <<>> THEN acc
  ELSE FileValuesLoop(
         FileValueStep(acc, regf_key, table[1][1], table[1][2]),
         regf_key, Tail(table))

\* One of the "if ..._time_value:" blocks, from acc = [events, raised];
\* get_data_as_integer is called outside of any try block.
TimeValueStep(acc, regf_key, value_name, date_time, description, data, key) ==
  LET value == GetValueByName(regf_key, value_name)
  IN IF acc.raised \/ value = None THEN acc
     ELSE IF IntegerRaises(value[1]) THEN [acc EXCEPT !.raised = TRUE]
     ELSE [acc EXCEPT !.events =
             Append(@, Event(date_time, value[1].data[1], description,
                             data, key))]

\* _ParseFileReferenceKey: [raised, warnings, events, event_data]
ParseFileReferenceKey(file_reference_key, key) ==
  LET named == [AMCacheFileEventData EXCEPT
                  !.file_reference = FileReference(file_reference_key.name)]
      mapped == FileValuesLoop(
                  [event_data |-> named, warnings |-> <<>>, raised |-> FALSE],
                  file_reference_key, FILE_REFERENCE_KEY_VALUES)
      data == mapped.event_data
      t0 == [events |-> <<>>, raised |-> mapped.raised]
      t1 == TimeValueStep(t0, file_reference_key, AMCACHE_ENTRY_WRITE_TIME,
              "Filetime", TIME_DESCRIPTION_MODIFICATION, data, key)
      t2 == TimeValueStep(t1, file_reference_key, AMCACHE_FILE_CREATION_TIME,
              "Filetime", TIME_DESCRIPTION_CREATION, data, key)
      t3 == TimeValueStep(t2, file_reference_key,
              AMCACHE_FILE_MODIFICATION_TIME,
              "Filetime", TIME_DESCRIPTION_MODIFICATION, data, key)
      t4 == TimeValueStep(t3, file_reference_key, AMCACHE_COMPILATION_TIME,
              "PosixTime", TIME_DESCRIPTION_CHANGE, data, key)
  IN [raised |-> t4.raised, warnings |-> mapped.warnings,
      events |-> t4.events, event_data |-> data]

\* One pass of the loop of _ParseProgramKey
ProgramValueStep(acc, regf_key, value_name, attribute_name) ==
  LET value == GetValueByName(regf_key, value_name)
      got == GetValueDataAsObject(value[1])
  IN IF value = None THEN acc
     ELSE [acc EXCEPT !.warnings = @ \o got.warnings,
                      !.event_data[attribute_name] = got.data]

RECURSIVE ProgramValuesLoop(_, _, _)
ProgramValuesLoop(acc, regf_key, table) ==
  IF table = <<>> THEN acc
  ELSE ProgramValuesLoop(
         ProgramValueStep(acc, regf_key, table[1][1], table[1][2]),
         regf_key, Tail(table))

\* _ParseProgramKey: [raised, warnings, events, event_data]
ParseProgramKey(program_key, key) ==
  LET mapped == ProgramValuesLoop(
                  [event_data |-> AMCacheProgramEventData,
                   warnings |-> <<>>],
                  program_key, PRODUCT_KEY_VALUES)
      data == mapped.event_data
      t1 == TimeValueStep([events |-> <<>>, raised |-> FALSE], program_key,
              AMCACHE_P_INSTALLATION_TIME, "PosixTime",
              TIME_DESCRIPTION_INSTALLATION, data, key)
  IN [raised |-> t1.raised, warnings |-> mapped.warnings,
      events |-> t1.events, event_data |-> data]

----------------------------------------------------------------------------
(* The walk over the keys.                                                 *)

Root == <<"R", "o", "o", "t">>
File == <<"F", "i", "l", "e">>
Programs == <<"P", "r", "o", "g", "r", "a", "m", "s">>

RootKeyMissing == [message |-> "Root key missing from AMCache.hve file."]

Front(seq) == SubSeq(seq, 1, Len(seq) - 1)
Last(seq) == seq[Len(seq)]

\* The key reached from regf_key through the sub keys with these indexes
RECURSIVE KeyAt(_, _)
KeyAt(regf_key, path) ==
  IF path = <<>> THEN regf_key
  ELSE KeyAt(regf_key.sub_keys[path[1]], Tail(path))

root_key == hive.root[1]

\* The loops of _ParseFileKey: the indexes <<volume, file reference>> of
\* the pass that follows the pass <<v, r>>, or <<>> when the loops end.
RECURSIVE NextFileReferenceKey(_, _, _)
NextFileReferenceKey(file_key, v, r) ==
  IF v > Len(file_key.sub_keys) THEN <<>>
  ELSE IF r < Len(file_key.sub_keys[v].sub_keys) THEN <<v, r + 1>>
  ELSE NextFileReferenceKey(file_key, v + 1, 0)

\* ParseFileObject returning without a word when there is no Root key
ParseFileObjectSilent ==
  /\ pc = "ParseFileObject"
  /\ pc' = IF hive.opens /\ hive.root # None THEN "ParseRootKey" ELSE "done"
  /\ UNCHANGED <<hive, key_path_segments, cursor, events, warnings,
                 event_data, calls>>

\* ParseFileObject up to the call of _ParseRootKey
ParseFileObject ==
  /\ pc = "ParseFileObject"
  /\ IF ~hive.opens
       THEN pc' = "done" /\ UNCHANGED warnings
     ELSE IF hive.root = None
       THEN pc' = "done" /\ warnings' = Append(warnings, RootKeyMissing)
     ELSE pc' = "ParseRootKey" /\ UNCHANGED warnings
  /\ UNCHANGED <<hive, key_path_segments, cursor, events, event_data, calls>>

\* _ParseRootKey up to its loop
ParseRootKey ==
  /\ pc = "ParseRootKey"
  /\ LET made == ProduceDefaultWindowsRegistryEvent(
                   root_key, <<"\\">> \o Root, <<>>)
     IN /\ events' = events \o made.events
        /\ warnings' = warnings \o made.warnings
        /\ IF made.raised
             THEN pc' = "raised" /\ UNCHANGED <<key_path_segments, cursor>>
           ELSE /\ pc' = "root_loop"
                /\ key_path_segments' = << <<>>, Root >>
                /\ cursor' = <<1>>
  /\ UNCHANGED <<hive, event_data, calls>>

\* The loop of _ParseRootKey without its call of _ParseSubKey
RootKeyLoopUnwalked ==
  /\ pc = "root_loop"
  /\ pc' = IF cursor[1] <= Len(root_key.sub_keys) THEN "dispatch" ELSE "done"
  /\ UNCHANGED <<hive, key_path_segments, cursor, events, warnings,
                 event_data, calls>>

\* The head of the loop of _ParseRootKey; after the loop ParseFileObject
\* closes the file.
RootKeyLoop ==
  /\ pc = "root_loop"
  /\ IF cursor[1] <= Len(root_key.sub_keys)
       THEN /\ key_path_segments' =
                 Append(key_path_segments, KeyAt(root_key, cursor).name)
            /\ pc' = "ParseSubKey"
     ELSE pc' = "done" /\ UNCHANGED key_path_segments
  /\ UNCHANGED <<hive, cursor, events, warnings, event_data, calls>>

\* _ParseSubKey up to its first recursive call, or its return
ParseSubKey ==
  /\ pc = "ParseSubKey"
  /\ LET regf_key == KeyAt(root_key, cursor)
         made == ProduceDefaultWindowsRegistryEvent(
                   regf_key, Join(<<"\\">>, key_path_segments), cursor)
     IN /\ events' = events \o made.events
        /\ warnings' = warnings \o made.warnings
        /\ IF made.raised
             THEN pc' = "raised" /\ UNCHANGED <<key_path_segments, cursor>>
           ELSE IF regf_key.sub_keys # <<>>
             THEN /\ key_path_segments' =
                       Append(key_path_segments, regf_key.sub_keys[1].name)
                  /\ cursor' = Append(cursor, 1)
                  /\ pc' = "ParseSubKey"
           ELSE pc' = "return" /\ UNCHANGED <<key_path_segments, cursor>>
  /\ UNCHANGED <<hive, event_data, calls>>

\* After a call of _ParseSubKey returned, without the pop
SubKeyReturnUnpopped ==
  /\ pc = "return"
  /\ LET parent == KeyAt(root_key, Front(cursor))
         n == Last(cursor)
     IN IF Len(cursor) = 1
          THEN /\ pc' = "dispatch"
               /\ UNCHANGED <<key_path_segments, cursor>>
        ELSE IF n < Len(parent.sub_keys)
          THEN /\ key_path_segments' =
                    Append(key_path_segments, parent.sub_keys[n + 1].name)
               /\ cursor' = Append(Front(cursor), n + 1)
               /\ pc' = "ParseSubKey"
        ELSE /\ cursor' = Front(cursor)
             /\ pc' = "return"
             /\ UNCHANGED key_path_segments
  /\ UNCHANGED <<hive, events, warnings, event_data, calls>>

\* After a call of _ParseSubKey returned: the pop, and in _ParseSubKey the
\* next pass of the loop or the return
SubKeyReturn ==
  /\ pc = "return"
  /\ LET parent == KeyAt(root_key, Front(cursor))
         n == Last(cursor)
     IN IF Len(cursor) = 1
          THEN /\ key_path_segments' = Front(key_path_segments)
               /\ pc' = "dispatch"
               /\ UNCHANGED cursor
        ELSE IF n < Len(parent.sub_keys)
          THEN /\ key_path_segments' =
                    Append(Front(key_path_segments),
                           parent.sub_keys[n + 1].name)
               /\ cursor' = Append(Front(cursor), n + 1)
               /\ pc' = "ParseSubKey"
        ELSE /\ key_path_segments' = Front(key_path_segments)
             /\ cursor' = Front(cursor)
             /\ pc' = "return"
  /\ UNCHANGED <<hive, events, warnings, event_data, calls>>

\* The if statement comparing the names whatever their case
RootKeyDispatchAnyCase ==
  /\ pc = "dispatch"
  /\ LET sub_key == KeyAt(root_key, cursor)
         first == NextFileReferenceKey(sub_key, 1, 0)
     IN IF Lower(sub_key.name) = Lower(File)
          THEN pc' = "ParseFileKey" /\ cursor' = cursor \o first
        ELSE IF Lower(sub_key.name) = Lower(Programs)
          THEN /\ pc' = "ParseProgramsKey"
               /\ cursor' = IF sub_key.sub_keys = <<>> THEN cursor
                            ELSE Append(cursor, 1)
        ELSE pc' = "root_loop" /\ cursor' = <<cursor[1] + 1>>
  /\ UNCHANGED <<hive, key_path_segments, events, warnings, event_data, calls>>

\* The if statement that ends a pass of the loop of _ParseRootKey
RootKeyDispatch ==
  /\ pc = "dispatch"
  /\ LET sub_key == KeyAt(root_key, cursor)
         first == NextFileReferenceKey(sub_key, 1, 0)
     IN IF sub_key.name = File
          THEN pc' = "ParseFileKey" /\ cursor' = cursor \o first
        ELSE IF sub_key.name = Programs
          THEN /\ pc' = "ParseProgramsKey"
               /\ cursor' = IF sub_key.sub_keys = <<>> THEN cursor
                            ELSE Append(cursor, 1)
        ELSE pc' = "root_loop" /\ cursor' = <<cursor[1] + 1>>
  /\ UNCHANGED <<hive, key_path_segments, events, warnings, event_data, calls>>

\* One pass of the loops of _ParseFileKey
ParseFileKey ==
  /\ pc = "ParseFileKey"
  /\ Len(cursor) = 3
  /\ LET made == ParseFileReferenceKey(KeyAt(root_key, cursor), cursor)
         next == NextFileReferenceKey(
                   KeyAt(root_key, <<cursor[1]>>), cursor[2], cursor[3])
     IN /\ events' = events \o made.events
        /\ warnings' = warnings \o made.warnings
        /\ event_data' = Some(made.event_data)
        /\ calls' = Append(calls, <<"_ParseFileReferenceKey", cursor>>)
        /\ IF made.raised THEN pc' = "raised" /\ UNCHANGED cursor
           ELSE pc' = "ParseFileKey" /\ cursor' = <<cursor[1]>> \o next
  /\ UNCHANGED <<hive, key_path_segments>>

\* The loops of _ParseFileKey are over
ParseFileKeyReturn ==
  /\ pc = "ParseFileKey"
  /\ Len(cursor) = 1
  /\ pc' = "root_loop"
  /\ cursor' = <<cursor[1] + 1>>
  /\ UNCHANGED <<hive, key_path_segments, events, warnings, event_data, calls>>

\* One pass of the loop of _ParseProgramsKey
ParseProgramsKey ==
  /\ pc = "ParseProgramsKey"
  /\ Len(cursor) = 2
  /\ LET made == ParseProgramKey(KeyAt(root_key, cursor), cursor)
         programs_key == KeyAt(root_key, <<cursor[1]>>)
     IN /\ events' = events \o made.events
        /\ warnings' = warnings \o made.warnings
        /\ event_data' = Some(made.event_data)
        /\ calls' = Append(calls, <<"_ParseProgramKey", cursor>>)
        /\ IF made.raised THEN pc' = "raised" /\ UNCHANGED cursor
           ELSE /\ pc' = "ParseProgramsKey"
                /\ cursor' = IF cursor[2] < Len(programs_key.sub_keys)
                             THEN <<cursor[1], cursor[2] + 1>>
                             ELSE <<cursor[1]>>
  /\ UNCHANGED <<hive, key_path_segments>>

\* The loop of _ParseProgramsKey is over
ParseProgramsKeyReturn ==
  /\ pc = "ParseProgramsKey"
  /\ Len(cursor) = 1
  /\ pc' = "root_loop"
  /\ cursor' = <<cursor[1] + 1>>
  /\ UNCHANGED <<hive, key_path_segments, events, warnings, event_data, calls>>

Next ==
  \/ ParseFileObject
  \/ ParseRootKey
  \/ RootKeyLoop
  \/ ParseSubKey
  \/ SubKeyReturn
  \/ RootKeyDispatch
  \/ ParseFileKey
  \/ ParseFileKeyReturn
  \/ ParseProgramsKey
  \/ ParseProgramsKeyReturn

----------------------------------------------------------------------------
(* The hives the parser is run on.                                         *)

MaxKeys == 5      \* keys below Root in the hives that vary the tree
MaxDepth == 3     \* levels below Root in those hives
MaxTokens == 3    \* pieces a file reference key name is made of
MaxValues == 3    \* values of a key in the hives that vary the values

Value(name, type, data) ==
  [name |-> name, type |-> type, data |-> Some(data), fault |-> FALSE]

\* The value when the reader fails on its data
Faulty(regf_value) == [regf_value EXCEPT !.fault = TRUE]

\* The value without data
Empty(regf_value) == [regf_value EXCEPT !.data = None]

Key(name, values, sub_keys) ==
  [name |-> name, last_written_time |-> Len(name), values |-> values,
   sub_keys |-> sub_keys]

Hive(key) == [opens |-> TRUE, root |-> Some(key)]

\* An entry write time and an installation time: either entry decoder makes
\* one event of a key with these values.
Stamped ==
  << Value(AMCACHE_ENTRY_WRITE_TIME, REG_QWORD, 3),
     Value(AMCACHE_P_INSTALLATION_TIME, REG_DWORD, 4) >>

Other == <<"O", "t", "h", "e", "r">>
Volume == <<"V", "o", "l">>

FirstLevelNames == {File, Programs, Lower(File), Other}

\* Key names are unique among the sub keys of a key, whatever the case.
NameSeqs(n) ==
  {names \in [1..n -> FirstLevelNames] :
     \A i, j \in 1..n : i # j => Lower(names[i]) # Lower(names[j])}

SubKeyName(level, i) ==
  IF level = 2
  THEN (IF i = 1 THEN File
        ELSE IF i = 2 THEN Programs ELSE <<"V">> \o Decimal(i))
  ELSE (IF i = 1 THEN <<"1">> \o Zeros \o <<"a">> ELSE Decimal(i))

\* The trees of at most n keys and at most d levels, a tree being the
\* sequence of the trees of its sub keys
RECURSIVE Shapes(_, _)
Shapes(n, d) ==
  IF n = 0 \/ d = 0 THEN {<<>>}
  ELSE {<<>>} \cup
       UNION {{<<first>> \o rest : first \in Shapes(k, d - 1),
                                   rest \in Shapes(n - 1 - k, d)} :
              k \in 0..(n - 1)}

RECURSIVE SubKeys(_, _)
SubKeys(shapes, level) ==
  [i \in 1..Len(shapes) |->
     Key(SubKeyName(level, i), Stamped, SubKeys(shapes[i], level + 1))]

TreeHives ==
  UNION {{Hive(Key(Root, Stamped,
                   [i \in 1..Len(shapes) |->
                      Key(names[i], Stamped, SubKeys(shapes[i], 2))])) :
            names \in NameSeqs(Len(shapes))} :
         shapes \in Shapes(MaxKeys, MaxDepth)}

NameTokens == {Zeros, <<"0">>, <<"1">>, <<"a">>, <<"g">>}

RECURSIVE Names(_)
Names(n) ==
  IF n = 0 THEN {<<>>}
  ELSE Names(n - 1) \cup {name \o token : name \in Names(n - 1),
                                          token \in NameTokens}

FileReferenceKeyNames == Names(MaxTokens) \ {<<>>}

Sha1 == <<"1", "0", "1">>

\* What a file reference key may hold under one value name: nothing, a
\* value, or a value the reader fails on
Held(regf_value) == {<<>>, <<regf_value>>, <<Faulty(regf_value)>>}

FileReferenceKeyValues ==
  {sha1 \o name \o t17 \o t12 \o t11 \o tf :
     sha1 \in Held(Value(Sha1, REG_SZ, Zeros \o <<"a", "b">>))
               \cup {<<Value(Sha1, REG_SZ, <<"a", "b">> \o Zeros)>>,
                     <<Value(Sha1, REG_SZ, Zeros \o Zeros \o <<"a">>)>>},
     name \in Held(Value(<<"0">>, REG_SZ, Zeros \o <<"a">>)),
     t17 \in Held(Value(AMCACHE_ENTRY_WRITE_TIME, REG_QWORD, 7)),
     t12 \in Held(Value(AMCACHE_FILE_CREATION_TIME, REG_QWORD, 2)),
     t11 \in Held(Value(AMCACHE_FILE_MODIFICATION_TIME, REG_QWORD, 1)),
     tf \in Held(Value(AMCACHE_COMPILATION_TIME, REG_DWORD, 9))}

FileReferenceKeys ==
  {Key(name, Stamped, <<>>) : name \in FileReferenceKeyNames}
  \cup {Key(<<"2">> \o Zeros \o <<"1", "f">>, values, <<>>) :
          values \in FileReferenceKeyValues}

\* Root\File\Vol with the key and a second file reference key, and
\* Root\Programs with a program key
FileHives ==
  {Hive(Key(Root, <<>>,
            << Key(File, <<>>,
                   << Key(Volume, <<>>,
                          <<key, Key(<<"1", "f">>, Stamped, <<>>)>>) >>),
               Key(Programs, <<>>, <<Key(<<"p">>, Stamped, <<>>)>>) >>)) :
     key \in FileReferenceKeys}

ProgramKeyValues ==
  {name \o installed \o code :
     name \in Held(Value(<<"0">>, REG_SZ, <<"a", "b">>)),
     installed \in Held(Value(AMCACHE_P_INSTALLATION_TIME, REG_DWORD, 8)),
     code \in {<<>>, <<Value(<<"f">>, REG_SZ, Zeros \o <<"a">>)>>}}

\* Root\Programs with the key and a second program key, and Root\Other
ProgramHives ==
  {Hive(Key(Root, <<>>,
            << Key(Programs, <<>>,
                   << Key(<<"p">>, values, <<>>),
                      Key(<<"r">>, Stamped, <<>>) >>),
               Key(Other, Stamped, <<>>) >>)) :
     values \in ProgramKeyValues}

ValuePool ==
  { Value(<<>>, REG_SZ, <<"a", "b">>),
    Value(<<"1", "0">>, REG_DWORD, 17),
    Value(<<"9">>, REG_MULTI_SZ, << <<"a">>, <<"b">> >>),
    Value(<<"V">>, REG_BINARY, <<1, 2>>),
    Empty(Value(<<"b">>, REG_SZ, <<>>)),
    Faulty(Value(<<"e">>, REG_EXPAND_SZ, <<"a">>)),
    Faulty(Value(<<"g">>, REG_MULTI_SZ, << <<"a">> >>)) }

\* The sequences of n values of the pool, no value twice
ValueSeqs(n) ==
  {values \in [1..n -> ValuePool] :
     \A i, j \in 1..n : i # j => values[i] # values[j]}

Reverse(seq) == [i \in 1..Len(seq) |-> seq[Len(seq) + 1 - i]]

\* Root holding values in any order and Root\Other holding them in the
\* opposite order
ValueHives ==
  {Hive(Key(Root, values, <<Key(Other, Reverse(values), <<>>)>>)) :
     values \in UNION {ValueSeqs(n) : n \in 0..MaxValues}}

Hives ==
  {[opens |-> FALSE, root |-> None], [opens |-> TRUE, root |-> None]}
  \cup TreeHives \cup FileHives \cup ProgramHives \cup ValueHives

Init ==
  /\ hive \in Hives
  /\ pc = "ParseFileObject"
  /\ key_path_segments = <<>>
  /\ cursor = <<>>
  /\ events = <<>>
  /\ warnings = <<>>
  /\ event_data = None
  /\ calls = <<>>

Spec == Init /\ [][Next]_vars

----------------------------------------------------------------------------
(* Properties.                                                             *)

HasRoot == hive.opens /\ hive.root # None

\* ParseFileObject is over, by a return or by an exception it lets through
Terminated == pc \in {"done", "raised"}

IsKeyEvent(event) == event.event_data.data_type = "windows:registry:key_value"
IsFileEvent(event) == event.event_data.data_type = "windows:registry:amcache"
IsProgramEvent(event) ==
  event.event_data.data_type = "windows:registry:amcache:programs"

Positions(Test(_)) == {i \in 1..Len(events) : Test(events[i])}

\* The keys of the hive in depth-first pre-order, sub keys in their order
RECURSIVE PreOrder(_, _), PreOrderFrom(_, _, _)
PreOrder(regf_key, path) == <<path>> \o PreOrderFrom(regf_key, path, 1)
PreOrderFrom(regf_key, path, i) ==
  IF i > Len(regf_key.sub_keys) THEN <<>>
  ELSE PreOrder(regf_key.sub_keys[i], Append(path, i))
       \o PreOrderFrom(regf_key, path, i + 1)

KeyPaths ==
  LET order == PreOrder(root_key, <<>>)
  IN {order[i] : i \in 1..Len(order)}

\* The keys two levels below Root\File and those one level below
\* Root\Programs
IsFileReferencePath(path) ==
  Len(path) = 3 /\ root_key.sub_keys[path[1]].name = File
IsProgramPath(path) ==
  Len(path) = 2 /\ root_key.sub_keys[path[1]].name = Programs

FileReferencePaths == {path \in KeyPaths : IsFileReferencePath(path)}
ProgramPaths == {path \in KeyPaths : IsProgramPath(path)}

Present(path, value_name) ==
  \E i \in 1..Len(KeyAt(root_key, path).values) :
    KeyAt(root_key, path).values[i].name = value_name

\* C1: when the file opens as a hive without a Root key, ParseFileObject
\* produces the one warning "Root key missing from AMCache.hve file.", no
\* event, and returns.
C1_RootKeyMissing ==
  (hive.opens /\ hive.root = None) =>
    /\ pc \in {"ParseFileObject", "done"}
    /\ events = <<>>
    /\ pc = "done" => warnings = <<RootKeyMissing>>

C1_Witness ==
  hive.opens /\ hive.root = None /\ pc = "done" /\ Len(warnings) = 1

\* C2: once ParseFileObject is over, the key events are the events of the
\* keys of the hive, Root included, one for each key, in depth-first
\* pre-order, each tagged as last written time.
C2_OneKeyEventPerKey ==
  (HasRoot /\ Terminated) =>
    LET at == SelectSeq(events, IsKeyEvent)
    IN /\ [i \in 1..Len(at) |-> at[i].key] = PreOrder(root_key, <<>>)
       /\ \A i \in 1..Len(at) : at[i].description = TIME_DESCRIPTION_WRITTEN

\* C3: the failure to decode a value is not fatal: no exception leaves the
\* parser, and once it is over every key has its key event and every file
\* reference key and program key was decoded.
C3_DecodeFailureNotFatal ==
  HasRoot =>
    /\ pc # "raised"
    /\ pc = "done" =>
         /\ {events[i].key : i \in Positions(IsKeyEvent)} = KeyPaths
         /\ {calls[i][2] : i \in 1..Len(calls)} =
              FileReferencePaths \cup ProgramPaths

\* The name cut at the first "0000": <<sequence number, MFT entry>>
FirstZeros(name) ==
  CHOOSE i \in 1..Len(name) :
    /\ SubSeq(name, i, i + 3) = Zeros
    /\ \A j \in 1..(i - 1) : SubSeq(name, j, j + 3) # Zeros
CutAtFirstZeros(name) ==
  <<SubSeq(name, 1, FirstZeros(name) - 1),
    SubSeq(name, FirstZeros(name) + 4, Len(name))>>

\* The key the last entry decoder call was made on
DecodedPath == calls[Len(calls)][2]
DecodedKey == KeyAt(root_key, DecodedPath)
FileDecoded ==
  calls # <<>> /\ calls[Len(calls)][1] = "_ParseFileReferenceKey"

\* C4: the file reference of a key whose name holds "0000" is
\* "{entry}-{sequence}" in decimal, of the hexadecimal numbers the name
\* holds after and before its first "0000", also when "0000" occurs again;
\* of another name that is a hexadecimal number, it is the number in
\* decimal.
C4_FileReference ==
  FileDecoded =>
    LET name == DecodedKey.name
        cut == CutAtFirstZeros(name)
    IN IF Contains(name, Zeros)
       THEN (IsHex(cut[1]) /\ IsHex(cut[2])) =>
              event_data[1].file_reference =
                Some(Decimal(HexToInt(cut[2], 0)) \o <<"-">>
                     \o Decimal(HexToInt(cut[1], 0)))
       ELSE IsHex(name) =>
              event_data[1].file_reference = Some(Decimal(HexToInt(name, 0)))

\* The text without its first four characters
DropFour(text) == [i \in 1..(Len(text) - 4) |-> text[i + 4]]

\* The str the reader gives for the value of this name of the decoded key
TextOf(value_name) == GetValueByName(DecodedKey, value_name)[1].data[1]
IsText(value_name) ==
  /\ GetValueByName(DecodedKey, value_name) # None
  /\ DecodesToStr(GetValueByName(DecodedKey, value_name)[1])

\* C5: the sha1 of the event data of a file reference key is the text of
\* its value 101 without the first four characters when these are "0000",
\* and that text otherwise; product_name, another attribute of the table,
\* is the text of its value 0 whatever it begins with.
C5_Sha1 ==
  FileDecoded =>
    /\ IsText(Sha1) =>
         event_data[1].sha1 =
           IF Len(TextOf(Sha1)) >= 4
              /\ \A i \in 1..4 : TextOf(Sha1)[i] = "0"
           THEN Some(DropFour(TextOf(Sha1)))
           ELSE Some(TextOf(Sha1))
    /\ IsText(<<"0">>) =>
         event_data[1].product_name = Some(TextOf(<<"0">>))

\* A sha1 value of eight zeros and more lost four of them, next to a
\* product name that kept its own.
C5_Witness ==
  /\ FileDecoded
  /\ IsText(Sha1) /\ TextOf(Sha1) = Zeros \o Zeros \o <<"a">>
  /\ event_data[1].sha1 = Some(Zeros \o <<"a">>)
  /\ IsText(<<"0">>) /\ event_data[1].product_name = Some(Zeros \o <<"a">>)

\* The events made of the key at path, of the kind tested
EventsOf(path, Test(_)) ==
  SelectSeq(events, LAMBDA event : Test(event) /\ event.key = path)

\* The tag and clock of the event of each time value of a file reference
\* key, in the order of the events
FileTimes ==
  << <<AMCACHE_ENTRY_WRITE_TIME, TIME_DESCRIPTION_MODIFICATION, "Filetime">>,
     <<AMCACHE_FILE_CREATION_TIME, TIME_DESCRIPTION_CREATION, "Filetime">>,
     <<AMCACHE_FILE_MODIFICATION_TIME, TIME_DESCRIPTION_MODIFICATION,
       "Filetime">>,
     <<AMCACHE_COMPILATION_TIME, TIME_DESCRIPTION_CHANGE, "PosixTime">> >>

\* <<tag, clock>> of the events of a file reference key, by its values
FileEventsExpected(path) ==
  LET present == SelectSeq(FileTimes, LAMBDA time : Present(path, time[1]))
  IN [i \in 1..Len(present) |-> <<present[i][2], present[i][3]>>]

\* Whether the reader reads, as an integer, the value of this name of the
\* key at path when the key holds one
Readable(path, value_name) ==
  LET value == GetValueByName(KeyAt(root_key, path), value_name)
  IN value = None \/ ~IntegerRaises(value[1])

\* C6: once ParseFileObject is over, the file events of every file
\* reference key, the reader reading its time values, are one for each of
\* the values 17, 12, 11 and f it holds, in that order, tagged
\* modification, creation, modification and change, all with the same
\* event data.
C6_FileEvents ==
  (HasRoot /\ Terminated) =>
    \A path \in FileReferencePaths :
      LET made == EventsOf(path, IsFileEvent)
      IN (\A i \in 1..Len(FileTimes) : Readable(path, FileTimes[i][1])) =>
         /\ [i \in 1..Len(made) |-> <<made[i].description, made[i].date_time>>]
              = FileEventsExpected(path)
         /\ \A i, j \in 1..Len(made) : made[i].event_data = made[j].event_data

\* C7: once ParseFileObject is over, every program key, the reader
\* reading its value a, has its key event, and one program event, tagged
\* installation, when it holds the value a, and none when it does not.
C7_ProgramEvents ==
  (HasRoot /\ Terminated) =>
    \A path \in ProgramPaths :
      LET made == EventsOf(path, IsProgramEvent)
      IN Readable(path, AMCACHE_P_INSTALLATION_TIME) =>
         /\ Len(EventsOf(path, IsKeyEvent)) = 1
         /\ Len(made) =
              IF Present(path, AMCACHE_P_INSTALLATION_TIME) THEN 1 ELSE 0
         /\ \A i \in 1..Len(made) :
              made[i].description = TIME_DESCRIPTION_INSTALLATION

\* The order of the items in which their names ascend: the item with r - 1
\* names below its own is the r-th
Ascending(items) ==
  [r \in 1..Len(items) |->
     CHOOSE i \in 1..Len(items) :
       Cardinality({j \in 1..Len(items) :
                      TextLess(items[j][1], items[i][1])}) = r - 1]

\* The summary that lists the values of the key by ascending name
Summary(regf_key) ==
  LET items == GetValuesFromKey(regf_key, {}).values_dict
      order == Ascending(items)
  IN Join(<<" ">>, [i \in 1..Len(items) |->
                      items[order[i]][1] \o <<":", " ">>
                      \o items[order[i]][2]])

ValueSet(regf_key) == {regf_key.values[i] : i \in 1..Len(regf_key.values)}

\* C8: the values text of a key event lists the values of its key by
\* ascending name, so that the events of two keys holding the same values
\* in two orders have the same text; the text of a key without values is
\* None.
C8_ValuesSorted ==
  HasRoot =>
    /\ \A i \in Positions(IsKeyEvent) :
         LET regf_key == KeyAt(root_key, events[i].key)
         IN events[i].event_data.values =
              IF regf_key.values = <<>> THEN None
              ELSE Some(Summary(regf_key))
    /\ \A i, j \in Positions(IsKeyEvent) :
         ValueSet(KeyAt(root_key, events[i].key))
           = ValueSet(KeyAt(root_key, events[j].key))
         => events[i].event_data.values = events[j].event_data.values

\* Two keys hold the same three values in two orders, and their events
\* have the same text.
C8_Witness ==
  /\ HasRoot
  /\ \E i, j \in Positions(IsKeyEvent) :
       LET first == KeyAt(root_key, events[i].key)
           second == KeyAt(root_key, events[j].key)
       IN /\ Len(first.values) = 3
          /\ first.values # second.values
          /\ ValueSet(first) = ValueSet(second)
          /\ events[i].event_data.values = events[j].event_data.values
          /\ events[i].event_data.values # None

\* The keys the entry decoders are to be called on, in the order of the
\* calls, for the first n sub keys of Root
RightPaths(n) ==
  SelectSeq(PreOrder(root_key, <<>>),
            LAMBDA path : /\ IsFileReferencePath(path) \/ IsProgramPath(path)
                          /\ path[1] <= n)

IsPrefix(short, long) ==
  Len(short) <= Len(long) /\ SubSeq(long, 1, Len(short)) = short

\* C9: the entry decoders are called on the keys two levels below a sub
\* key of Root named File and one level below a sub key of Root named
\* Programs, on each of them once the pass of the sub key is over, in
\* their order, and on no other key; no other key has a file event or a
\* program event.
C9_OnlyFileAndPrograms ==
  HasRoot =>
    LET called == [i \in 1..Len(calls) |-> calls[i][2]]
    IN /\ IsPrefix(called, RightPaths(Len(root_key.sub_keys)))
       /\ Len(cursor) >= 1 => IsPrefix(RightPaths(cursor[1] - 1), called)
       /\ \A i \in 1..Len(calls) :
            calls[i][1] = IF IsFileReferencePath(calls[i][2])
                          THEN "_ParseFileReferenceKey"
                          ELSE "_ParseProgramKey"
       /\ \A i \in Positions(IsFileEvent) :
            IsFileReferencePath(events[i].key)
       /\ \A i \in Positions(IsProgramEvent) :
            IsProgramPath(events[i].key)

\* The parser returned from a hive with Root\file\File\<key> and
\* Root\Programs\<key>, having decoded the program key only.
C9_Witness ==
  /\ HasRoot
  /\ pc = "done"
  /\ \E path \in KeyPaths :
       /\ Len(path) = 3
       /\ KeyAt(root_key, <<path[1]>>).name = Lower(File)
       /\ KeyAt(root_key, <<path[1], path[2]>>).name = File
  /\ Len(calls) = 1 /\ IsProgramPath(calls[1][2])

IsEntryEvent(event) == IsFileEvent(event) \/ IsProgramEvent(event)

\* C10: a file event or program event comes after the key event of its
\* key, and before the key event of every key below a later sub key of
\* Root.
C10_EventOrder ==
  /\ \A j \in Positions(IsEntryEvent) :
       \E i \in Positions(IsKeyEvent) :
         i < j /\ events[i].key = events[j].key
  /\ \A a \in Positions(IsEntryEvent) :
       \A b \in Positions(IsKeyEvent) :
         (events[b].key # <<>> /\ events[b].key[1] > events[a].key[1])
           => a < b

\* A file event is followed by the key event of Root\Programs.
C10_Witness ==
  \E a \in Positions(IsFileEvent) :
    \E b \in Positions(IsKeyEvent) :
      /\ a < b
      /\ events[b].key # <<>>
      /\ KeyAt(root_key, events[b].key).name = Programs
      /\ events[b].key[1] > events[a].key[1]

\* The names of the keys from below Root down to the key at path
NamesAlong(path) ==
  [i \in 1..Len(path) |-> KeyAt(root_key, SubSeq(path, 1, i)).name]

\* The segments of the key at path: "", "Root" and the names below Root
Segments(path) == << <<>>, Root >> \o NamesAlong(path)

\* C11: the list of path segments, once it exists, begins with "" and
\* "Root"; while a key is handled by _ParseSubKey the list is "", "Root"
\* and the names of the keys from Root down to that key, one segment for
\* each descent; whenever the walk of a sub key of Root is over the list is
\* "", "Root" alone; and the key path of every key event is the segments of
\* its key joined by backslashes, "\Root" for Root.
C11_PathStack ==
  HasRoot =>
    /\ key_path_segments # <<>> => IsPrefix(Segments(<<>>), key_path_segments)
    /\ pc \in {"ParseSubKey", "return"} =>
         key_path_segments = Segments(cursor)
    /\ pc \in {"root_loop", "dispatch", "ParseFileKey", "ParseProgramsKey",
               "done"} =>
         key_path_segments = Segments(<<>>)
    /\ \A i \in Positions(IsKeyEvent) :
         events[i].event_data.key_path =
           IF events[i].key = <<>> THEN <<"\\">> \o Root
           ELSE Join(<<"\\">>, Segments(events[i].key))

\* The parser returned with the list back to "", "Root", after the key
\* event of a second sub key three levels below Root, made with five
\* segments after a pop and a push.
C11_Witness ==
  /\ HasRoot
  /\ pc = "done"
  /\ key_path_segments = << <<>>, Root >>
  /\ \E i \in Positions(IsKeyEvent) :
       /\ Len(events[i].key) = 3
       /\ events[i].key[3] = 2
       /\ events[i].event_data.key_path = Join(<<"\\">>, Segments(events[i].key))
       /\ Len(Split(events[i].event_data.key_path, <<"\\">>)) = 5

====
